---------------------------- MODULE Spec2Model ----------------------------
(***************************************************************************)
(* A model of the agent evaluator:                                         *)
(*   - EvaluatorAgent (agent_evaluator/evaluator_agent/evaluator_agent.py):*)
(*     the evaluation log, the report built from it, the cached client of  *)
(*     the evaluated agent and the sending of prompts;                     *)
(*   - run_and_evaluate_scenarios (rogue/ui/components/scenario_runner.py):*)
(*     the consumer of the progress-event stream.                          *)
(*   - run_and_evaluate_scenarios of the agent_evaluator UI                *)
(*     (agent_evaluator/ui/components/scenario_runner.py): a generator     *)
(*     whose results are passed to return.                                 *)
(* Texts are sequences of code points, so that json.dumps and json.loads   *)
(* are computed character by character.                                    *)
(***************************************************************************)
EXTENDS Integers, Sequences, FiniteSets, TLC

VARIABLES
    evaluation_logs,   \* EvaluatorAgent._evaluation_logs
    calls,             \* history: the arguments of each _log_evaluation call, in call order
    report,            \* the text returned by the last _generate_report (NoReport before)
    reported,          \* history: the log the last report was built from
    client,            \* EvaluatorAgent.__evaluated_agent_client (NoClient: None)
    conns,             \* RemoteAgentConnections objects created so far
    discoveries,       \* card_resolver.get_agent_card() calls issued so far
    pc,                \* per tool call in flight: where its coroutine is suspended
    op,                \* per tool call in flight: which tool it is
    msg,               \* per _send_prompt_to_evaluated_agent call: its arguments
    agent_client,      \* per _send_prompt_to_evaluated_agent call: its local agent_client
    attempts,          \* per call: send_message invocations it made
    payload,           \* per call: what send_message gave back
    ret,               \* per caller: the outcome of its last tool call
    used,              \* history: the clients _get_evaluated_agent handed out
    sent,              \* history: the messages passed to send_message
    ncalls,            \* tool calls started so far
    state,             \* the shared gr.State dict of the rogue UI
    ui_pc,             \* run_and_evaluate_scenarios: the yield or await it is suspended at
    status_updates,    \* run_and_evaluate_scenarios: its local status_updates
    chat_history,      \* run_and_evaluate_scenarios: its local chat_history
    final_results,     \* run_and_evaluate_scenarios: its local final_results
    shown,             \* the outputs of the last yield: status box, chat, selected tab
    pending,           \* the item the event stream hands to the waiting consumer
    events,            \* history: the progress events emitted, in emission order
    consumed,          \* history: the progress events the consumer handled, in order
    orch,              \* orchestrator: its state (section 4.5)
    scen,              \* orchestrator: the scenario being run
    ntc,               \* orchestrator: test cases generated for the scenario
    tc,                \* orchestrator: the test case being run
    turn,              \* orchestrator: turns of the test case sent so far
    half,              \* orchestrator: a prompt was sent and its response is awaited
    transcript,        \* orchestrator: the responses of the test case so far
    verdict,           \* orchestrator: the Judge's verdict for the test case
    log,               \* orchestrator: the run's EvaluationLog
    caught,            \* history: the exception the run's except branch caught
    ui_scenarios,      \* run_and_evaluate_scenarios: its local scenarios
    got,               \* what the last _get_scenarios call returned (NotCalled before)
    ae_state,          \* the gr.State dict of the agent_evaluator UI
    ae_pc,             \* agent_evaluator run_and_evaluate_scenarios: where the generator is
    ae_status_updates, \* agent_evaluator run_and_evaluate_scenarios: its local status_updates
    ae_shown,          \* agent_evaluator UI: the outputs the click has delivered last
    ae_ret,            \* the value the generator passed to return (NoTriple before)
    ae_clicks,         \* history: clicks of the agent_evaluator run button so far
    agents,            \* two EvaluatorAgent instances: each one's log and cached client
    runs               \* two UI runs: each one's status_updates and chat_history

logVars == <<evaluation_logs, calls, report, reported>>
sessVars == <<client, conns, discoveries, pc, op, msg, agent_client, attempts,
              payload, ret, used, sent, ncalls>>
uiVars == <<state, ui_pc, status_updates, chat_history, final_results, shown,
            pending, events, consumed>>
orchVars == <<orch, scen, ntc, tc, turn, half, transcript, verdict, log>>
catVars == <<got>>
aeVars == <<ae_state, ae_pc, ae_status_updates, ae_shown, ae_ret, ae_clicks>>
twoVars == <<agents, runs>>
sideVars == <<catVars, aeVars, twoVars>>
runVars == <<caught, ui_scenarios>>
restVars == <<runVars, sideVars>>

None == "None"
NoReport == <<>>

----------------------------------------------------------------------------
(* Bounds and input samples *)

MaxLog == 2
MaxCalls == 3
NumScenarios == 2
MaxEvents == 4

\* A text (a Python str) is the sequence of the code points of its
\* characters; the text json.dumps writes is ASCII and is kept as a sequence
\* of one-character strings.
\* The printable ASCII characters, code points 32 to 126; the grave accent,
\* which no TLA+ string can hold, is written U+0060.
Ascii ==
    <<" ", "!", "\"", "#", "$", "%", "&", "'", "(", ")", "*", "+", ",", "-", ".", "/",
       "0", "1", "2", "3", "4", "5", "6", "7", "8", "9", ":", ";", "<", "=", ">", "?",
       "@", "A", "B", "C", "D", "E", "F", "G", "H", "I", "J", "K", "L", "M", "N", "O",
       "P", "Q", "R", "S", "T", "U", "V", "W", "X", "Y", "Z", "[", "\\", "]", "^", "_",
       "U+0060", "a", "b", "c", "d", "e", "f", "g", "h", "i", "j", "k", "l", "m", "n", "o",
       "p", "q", "r", "s", "t", "u", "v", "w", "x", "y", "z", "{", "|", "}", "~">>

Chr(n) == Ascii[n - 31]
IsAscii(ch) == \E i \in DOMAIN Ascii : Ascii[i] = ch
Ord(ch) == 31 + (CHOOSE i \in DOMAIN Ascii : Ascii[i] = ch)
Str(s) == [i \in 1..Len(s) |-> Ord(s[i])]

\* Texts the evaluator passes to _log_evaluation: plain characters, the quote,
\* the backslash, the control characters with a short escape (backspace 8,
\* tab 9, newline 10, form feed 12, carriage return 13), control characters
\* without one (0, 1, 31), DEL (127), non-ASCII characters (233, 20013), a
\* character above U+FFFF (128512) and surrogate halves (55357, 56832), alone
\* and next to each other.
ScenarioTexts == { Str(<<"d">>) }
TestCaseTexts == { Str(<<"q">>), Str(<<"\"", "q">>) }
ResponseTexts ==
    { <<>>, Str(<<"n">>), Str(<<"\\", "n">>), <<10>>, Str(<<"\"">>),
      <<9, 13, 12, 8, 0, 1, 31, 127, 233, 20013, 128512, 56832, 55357>>,
      <<55357, 56832>> }

----------------------------------------------------------------------------
(* json.dumps(self._evaluation_logs, indent=2) *)

Spell(k) ==
    CASE k = "scenario"   -> Str(<<"s", "c", "e", "n", "a", "r", "i", "o">>)
      [] k = "test_case"  -> Str(<<"t", "e", "s", "t", "_", "c", "a", "s", "e">>)
      [] k = "response"   -> Str(<<"r", "e", "s", "p", "o", "n", "s", "e">>)
      [] k = "evaluation" -> Str(<<"e", "v", "a", "l", "u", "a", "t", "i", "o", "n">>)
      [] k = "reason"     -> Str(<<"r", "e", "a", "s", "o", "n">>)

KnownKeys == {"scenario", "test_case", "response", "evaluation", "reason"}

\* The keys of the dict literal, in insertion order.
RecordKeys == <<"scenario", "test_case", "response", "evaluation">>

HexDigits ==
    <<"0", "1", "2", "3", "4", "5", "6", "7", "8", "9", "a", "b", "c", "d", "e", "f">>

\* '{0:04x}'.format(n)
Hex4(n) ==
    <<HexDigits[((n \div 4096) % 16) + 1], HexDigits[((n \div 256) % 16) + 1],
      HexDigits[((n \div 16) % 16) + 1], HexDigits[(n % 16) + 1]>>

\* The surrogate halves json.dumps writes for a character above U+FFFF.
HighSurrogate(c) == 55296 + (((c - 65536) \div 1024) % 1024)
LowSurrogate(c) == 56320 + ((c - 65536) % 1024)

\* json.dumps with ensure_ascii left True (ESCAPE_ASCII, ESCAPE_DCT): the
\* quote, the backslash and the control characters with a short escape get
\* it; a printable ASCII character is copied; any other character (control,
\* DEL, non-ASCII) is written \uxxxx, as two surrogate halves above U+FFFF.
JsonEscape(c) ==
    CASE c = 34 -> <<"\\", "\"">>
      [] c = 92 -> <<"\\", "\\">>
      [] c = 10 -> <<"\\", "n">>
      [] c = 13 -> <<"\\", "r">>
      [] c = 9  -> <<"\\", "t">>
      [] c = 12 -> <<"\\", "f">>
      [] c = 8  -> <<"\\", "b">>
      [] c >= 32 /\ c <= 126 /\ c \notin {34, 92} -> <<Chr(c)>>
      [] c >= 65536 -> <<"\\", "u">> \o Hex4(HighSurrogate(c))
                       \o <<"\\", "u">> \o Hex4(LowSurrogate(c))
      [] OTHER -> <<"\\", "u">> \o Hex4(c)

RECURSIVE JsonEscapeAll(_)
JsonEscapeAll(s) ==
    IF s = <<>> THEN <<>> ELSE JsonEscape(Head(s)) \o JsonEscapeAll(Tail(s))

JsonString(s) == <<"\"">> \o JsonEscapeAll(s) \o <<"\"">>

\* The fields of a record whose value is a bool; the others hold a str.
BoolKeys == {"evaluation"}

JsonValue(k, v) ==
    IF k \in BoolKeys
    THEN (IF v THEN <<"t", "r", "u", "e">> ELSE <<"f", "a", "l", "s", "e">>)
    ELSE JsonString(v)

Indent(n) == [i \in 1..n |-> " "]

RECURSIVE JsonMembers(_, _)
JsonMembers(rec, keys) ==
    IF keys = <<>> THEN <<>>
    ELSE LET k == Head(keys) IN
         Indent(4) \o JsonString(Spell(k)) \o <<":", " ">> \o JsonValue(k, rec[k])
         \o (IF Len(keys) > 1 THEN <<",", "\n">> ELSE <<"\n">>)
         \o JsonMembers(rec, Tail(keys))

JsonObject(rec) ==
    Indent(2) \o <<"{", "\n">> \o JsonMembers(rec, RecordKeys) \o Indent(2) \o <<"}">>

RECURSIVE JsonItems(_)
JsonItems(logs) ==
    IF logs = <<>> THEN <<>>
    ELSE JsonObject(Head(logs))
         \o (IF Len(logs) > 1 THEN <<",", "\n">> ELSE <<"\n">>)
         \o JsonItems(Tail(logs))

JsonDumps(logs) ==
    IF logs = <<>> THEN <<"[", "]">>
    ELSE <<"[", "\n">> \o JsonItems(logs) \o <<"]">>

----------------------------------------------------------------------------
(* json.loads: a recursive-descent parser of arrays of objects whose values *)
(* are strings or booleans.  A parse result is [ok, val, pos].              *)

Fail == [ok |-> FALSE, val |-> <<>>, pos |-> 0]
Ok(v, p) == [ok |-> TRUE, val |-> v, pos |-> p]

At(t, i) == IF i >= 1 /\ i <= Len(t) THEN t[i] ELSE "EOF"

RECURSIVE SkipWs(_, _)
SkipWs(t, i) == IF At(t, i) \in {" ", "\t", "\n", "\r"} THEN SkipWs(t, i + 1) ELSE i

Literal(t, i, w) == i + Len(w) - 1 <= Len(t) /\ SubSeq(t, i, i + Len(w) - 1) = w

\* int(ch, 16) of one hexadecimal digit, -1 for any other character.
HexValue(ch) ==
    IF \E d \in DOMAIN HexDigits : HexDigits[d] = ch
    THEN (CHOOSE d \in DOMAIN HexDigits : HexDigits[d] = ch) - 1
    ELSE CASE ch = "A" -> 10 [] ch = "B" -> 11 [] ch = "C" -> 12
           [] ch = "D" -> 13 [] ch = "E" -> 14 [] ch = "F" -> 15
           [] OTHER -> -1

\* _decode_uXXXX: the value of the four hexadecimal digits at i, -1 when
\* they are not four hexadecimal digits.
DecodeU(t, i) ==
    LET h == [k \in 0..3 |-> HexValue(At(t, i + k))] IN
    IF \E k \in 0..3 : h[k] < 0 THEN -1
    ELSE h[0] * 4096 + h[1] * 256 + h[2] * 16 + h[3]

\* BACKSLASH: the character a short escape stands for, -1 for no escape.
Unescape(e) ==
    CASE e = "\"" -> 34 [] e = "\\" -> 92 [] e = "/" -> 47
      [] e = "b" -> 8 [] e = "f" -> 12 [] e = "n" -> 10
      [] e = "r" -> 13 [] e = "t" -> 9
      [] OTHER -> -1

\* py_scanstring (strict): the text of the report is ASCII, so a character
\* that is not printable ASCII is the end of the text or a raw control
\* character.
RECURSIVE ScanString(_, _, _)
ScanString(t, i, acc) ==
    LET c == At(t, i) IN
    IF c = "\"" THEN Ok(acc, i + 1)
    ELSE IF c = "\\" THEN
        LET e == At(t, i + 1) IN
        IF e = "u" THEN
            LET uni == DecodeU(t, i + 2) IN
            IF uni < 0 THEN Fail
            ELSE IF uni >= 55296 /\ uni <= 56319 /\ Literal(t, i + 6, <<"\\", "u">>)
            THEN LET uni2 == DecodeU(t, i + 8) IN
                 IF uni2 < 0 THEN Fail
                 ELSE IF uni2 >= 56320 /\ uni2 <= 57343
                 THEN ScanString(t, i + 12,
                          Append(acc, 65536 + (uni - 55296) * 1024 + (uni2 - 56320)))
                 ELSE ScanString(t, i + 6, Append(acc, uni))
            ELSE ScanString(t, i + 6, Append(acc, uni))
        ELSE IF Unescape(e) >= 0 THEN ScanString(t, i + 2, Append(acc, Unescape(e)))
        ELSE Fail
    ELSE IF IsAscii(c) THEN ScanString(t, i + 1, Append(acc, Ord(c)))
    ELSE Fail

ParseString(t, i) == IF At(t, i) = "\"" THEN ScanString(t, i + 1, <<>>) ELSE Fail

ParseValue(t, i) ==
    IF At(t, i) = "\"" THEN ParseString(t, i)
    ELSE IF Literal(t, i, <<"t", "r", "u", "e">>) THEN Ok(TRUE, i + 4)
    ELSE IF Literal(t, i, <<"f", "a", "l", "s", "e">>) THEN Ok(FALSE, i + 5)
    ELSE Fail

KeyOf(chars) ==
    IF \E k \in KnownKeys : Spell(k) = chars
    THEN CHOOSE k \in KnownKeys : Spell(k) = chars
    ELSE None

\* The members of an object after its "{": key ":" value, then "," or "}".
RECURSIVE ParseMembers(_, _, _)
ParseMembers(t, i, acc) ==
    LET k == ParseString(t, SkipWs(t, i)) IN
    IF ~k.ok \/ KeyOf(k.val) = None THEN Fail
    ELSE LET c == SkipWs(t, k.pos) IN
         IF At(t, c) # ":" THEN Fail
         ELSE LET v == ParseValue(t, SkipWs(t, c + 1)) IN
              IF ~v.ok THEN Fail
              ELSE LET e   == SkipWs(t, v.pos)
                       obj == (KeyOf(k.val) :> v.val) @@ acc
                   IN  IF At(t, e) = "," THEN ParseMembers(t, e + 1, obj)
                       ELSE IF At(t, e) = "}" THEN Ok(obj, e + 1)
                       ELSE Fail

ParseObject(t, i) ==
    IF At(t, i) # "{" THEN Fail
    ELSE IF At(t, SkipWs(t, i + 1)) = "}" THEN Ok(<<>>, SkipWs(t, i + 1) + 1)
    ELSE ParseMembers(t, i + 1, <<>>)

RECURSIVE ParseElements(_, _, _)
ParseElements(t, i, acc) ==
    LET o == ParseObject(t, SkipWs(t, i)) IN
    IF ~o.ok THEN Fail
    ELSE LET e == SkipWs(t, o.pos) IN
         IF At(t, e) = "," THEN ParseElements(t, e + 1, Append(acc, o.val))
         ELSE IF At(t, e) = "]" THEN Ok(Append(acc, o.val), e + 1)
         ELSE Fail

ParseArray(t, i) ==
    IF At(t, i) # "[" THEN Fail
    ELSE IF At(t, SkipWs(t, i + 1)) = "]" THEN Ok(<<>>, SkipWs(t, i + 1) + 1)
    ELSE ParseElements(t, i + 1, <<>>)

\* json.loads(text): [ok |-> TRUE, val |-> the parsed list], or ok = FALSE when
\* the text is not valid JSON (JSONDecodeError).
JsonLoads(t) ==
    LET r == ParseArray(t, SkipWs(t, 1)) IN
    IF r.ok /\ SkipWs(t, r.pos) = Len(t) + 1
    THEN [ok |-> TRUE, val |-> r.val]
    ELSE [ok |-> FALSE, val |-> <<>>]

----------------------------------------------------------------------------
(* EvaluatorAgent: the evaluation log and the report *)

EvaluationRecord(scenario, test_case, response, evaluation) ==
    [scenario |-> scenario, test_case |-> test_case,
     response |-> response, evaluation |-> evaluation]

LogAppendFront(logs, rec) == <<rec>> \o logs

\* self._evaluation_logs.append({...})
LogAppend(logs, rec) == Append(logs, rec)

NotCalled == <<None>>

\* The list _get_scenarios returns.
Scenarios ==
    <<"the evaluated agent is not allowed to give a discount to the user">>

InitLog ==
    /\ evaluation_logs = <<>>
    /\ calls = <<>>
    /\ report = NoReport
    /\ reported = <<>>
    /\ got = NotCalled

\* _log_evaluation(scenario, test_case, response, evaluation)
LogEvaluation(scenario, test_case, response, evaluation) ==
    /\ Len(calls) < MaxLog
    /\ evaluation_logs' =
           LogAppend(evaluation_logs,
                     EvaluationRecord(scenario, test_case, response, evaluation))
    /\ calls' = Append(calls, <<scenario, test_case, response, evaluation>>)
    /\ UNCHANGED <<report, reported>>
    /\ UNCHANGED <<sessVars, uiVars, orchVars, restVars>>

\* _generate_report()
GenerateReport ==
    /\ report' = JsonDumps(evaluation_logs)
    /\ reported' = evaluation_logs
    /\ UNCHANGED <<evaluation_logs, calls>>
    /\ UNCHANGED <<sessVars, uiVars, orchVars, restVars>>

\* _get_scenarios(): a static method, the same list at every call.
GetScenarios ==
    /\ got' = Scenarios
    /\ UNCHANGED <<logVars, sessVars, uiVars, orchVars, runVars, aeVars, twoVars>>

NextLog ==
    \/ \E s \in ScenarioTexts, t \in TestCaseTexts, r \in ResponseTexts, e \in BOOLEAN :
           LogEvaluation(s, t, r, e)
    \/ GenerateReport
    \/ GetScenarios

----------------------------------------------------------------------------
(* EvaluatorAgent: the cached client of the evaluated agent, and sending *)

\* self.__evaluated_agent_client = None
NoClient == 0

\* The tool calls the LLM agent may have in flight at once.
Callers == {"c1", "c2"}

\* The test cases the evaluator works on, the context ids it passes, the prompts.
TestCases == {"A", "B"}
ContextIds == {None, "ctx1", "ctx2"}
Contents == {"p"}

\* What agent_client.send_message gives back: no response, or a response object.
NoResponse == "null"
Payloads == {NoResponse, "resp"}

\* The outcome of a tool call: a returned value or a raised error.
NoneValue == <<"None">>
Return(v) == [kind |-> "return", val |-> v]
Raise(e) == [kind |-> "raise", val |-> <<e>>]
NoOutcome == [kind |-> "none", val |-> <<>>]
NoMsg == [content |-> None, context_id |-> None, test_case |-> None]

\* response.model_dump_json(), agent_client.get_agent().model_dump_json()
ModelDumpJson(x) == <<"json", x>>

CacheMissAlways(cl) == TRUE

\* if self.__evaluated_agent_client is None
CacheMiss(cl) == cl = NoClient

\* if not response: return None;  return response.model_dump_json()
SendOutcome(p) == IF p = NoResponse THEN Return(NoneValue) ELSE Return(ModelDumpJson(p))

InitSession ==
    /\ client = NoClient
    /\ conns = 0
    /\ discoveries = 0
    /\ pc = [c \in Callers |-> "idle"]
    /\ op = [c \in Callers |-> "none"]
    /\ msg = [c \in Callers |-> NoMsg]
    /\ agent_client = [c \in Callers |-> NoClient]
    /\ attempts = [c \in Callers |-> 0]
    /\ payload = [c \in Callers |-> None]
    /\ ret = [c \in Callers |-> NoOutcome]
    /\ used = {}
    /\ sent = {}
    /\ ncalls = 0

\* A tool call starts: the state every call has before its first statement.
Begin(c, tool, m) ==
    /\ pc[c] = "idle"
    /\ ncalls < MaxCalls
    /\ ncalls' = ncalls + 1
    /\ op' = [op EXCEPT ![c] = tool]
    /\ msg' = [msg EXCEPT ![c] = m]
    /\ payload' = [payload EXCEPT ![c] = None]

\* return agent_client.get_agent().model_dump_json()
GotCard(c, cl) ==
    /\ ret' = [ret EXCEPT ![c] = Return(ModelDumpJson(cl))]
    /\ pc' = [pc EXCEPT ![c] = "idle"]
    /\ UNCHANGED <<agent_client, attempts, sent>>

\* agent_client.send_message(MessageSendParams(message=Message(contextId=context_id, ...)))
StartSend(c, cl, m) ==
    /\ agent_client' = [agent_client EXCEPT ![c] = cl]
    /\ sent' = sent \cup {[context_id |-> m.context_id, content |-> m.content,
                           test_case |-> m.test_case]}
    /\ attempts' = [attempts EXCEPT ![c] = 1]
    /\ pc' = [pc EXCEPT ![c] = "await_send"]
    /\ ret' = [ret EXCEPT ![c] = NoOutcome]

\* _get_evaluated_agent finds no client: the card is asked for and the
\* coroutine suspends in await card_resolver.get_agent_card().
AwaitCard(c) ==
    /\ discoveries' = discoveries + 1
    /\ pc' = [pc EXCEPT ![c] = "await_card"]
    /\ ret' = [ret EXCEPT ![c] = NoOutcome]
    /\ attempts' = [attempts EXCEPT ![c] = 0]
    /\ UNCHANGED <<client, conns, used, agent_client, sent>>

\* _get_evaluated_agent_card()
CallCard(c) ==
    /\ Begin(c, "card", NoMsg)
    /\ IF CacheMiss(client)
       THEN AwaitCard(c)
       ELSE /\ used' = used \cup {client}
            /\ GotCard(c, client)
            /\ UNCHANGED <<client, conns, discoveries>>
    /\ UNCHANGED <<logVars, uiVars, orchVars, restVars>>

\* _send_prompt_to_evaluated_agent(content, context_id), sent for test case tcid
CallSend(c, content, context_id, tcid) ==
    LET m == [content |-> content, context_id |-> context_id, test_case |-> tcid] IN
    /\ Begin(c, "send", m)
    /\ IF CacheMiss(client)
       THEN AwaitCard(c)
       ELSE /\ used' = used \cup {client}
            /\ StartSend(c, client, m)
            /\ UNCHANGED <<client, conns, discoveries>>
    /\ UNCHANGED <<logVars, uiVars, orchVars, restVars>>

\* card_resolver.get_agent_card() returns: the client is created, stored and
\* returned to the tool, which goes on to its next await.
CardFetched(c) ==
    /\ pc[c] = "await_card"
    /\ conns' = conns + 1
    /\ client' = conns + 1
    /\ used' = used \cup {client'}
    /\ IF op[c] = "card"
       THEN GotCard(c, client')
       ELSE StartSend(c, client', msg[c])
    /\ UNCHANGED <<discoveries, op, msg, payload, ncalls>>
    /\ UNCHANGED <<logVars, uiVars, orchVars, restVars>>

CardFetchFailsCached(c) ==
    /\ pc[c] = "await_card"
    /\ conns' = conns + 1
    /\ client' = conns + 1
    /\ ret' = [ret EXCEPT ![c] = Raise("CardError")]
    /\ pc' = [pc EXCEPT ![c] = "idle"]
    /\ UNCHANGED <<discoveries, op, msg, agent_client, attempts,
                   payload, used, sent, ncalls>>
    /\ UNCHANGED <<logVars, uiVars, orchVars, restVars>>

\* card_resolver.get_agent_card() raises: the error leaves the tool.
CardFetchFails(c) ==
    /\ pc[c] = "await_card"
    /\ ret' = [ret EXCEPT ![c] = Raise("CardError")]
    /\ pc' = [pc EXCEPT ![c] = "idle"]
    /\ UNCHANGED <<client, conns, discoveries, op, msg, agent_client, attempts,
                   payload, used, sent, ncalls>>
    /\ UNCHANGED <<logVars, uiVars, orchVars, restVars>>

\* agent_client.send_message returns p
SendResponds(c, p) ==
    /\ pc[c] = "await_send"
    /\ payload' = [payload EXCEPT ![c] = p]
    /\ ret' = [ret EXCEPT ![c] = SendOutcome(p)]
    /\ pc' = [pc EXCEPT ![c] = "idle"]
    /\ UNCHANGED <<client, conns, discoveries, op, msg, agent_client, attempts,
                   used, sent, ncalls>>
    /\ UNCHANGED <<logVars, uiVars, orchVars, restVars>>

\* agent_client.send_message raises (a connection failure)
SendFails(c) ==
    /\ pc[c] = "await_send"
    /\ ret' = [ret EXCEPT ![c] = Raise("TransportError")]
    /\ pc' = [pc EXCEPT ![c] = "idle"]
    /\ UNCHANGED <<client, conns, discoveries, op, msg, agent_client, attempts,
                   payload, used, sent, ncalls>>
    /\ UNCHANGED <<logVars, uiVars, orchVars, restVars>>

AllIdle == \A c \in Callers : pc[c] = "idle"

\* The tools called under any interleaving of their awaits.
NextSession ==
    \E c \in Callers :
        \/ CallCard(c)
        \/ \E content \in Contents, ctx \in ContextIds, tcid \in TestCases :
               CallSend(c, content, ctx, tcid)
        \/ CardFetched(c)
        \/ CardFetchFails(c)
        \/ \E p \in Payloads : SendResponds(c, p)
        \/ SendFails(c)

\* The tools called one after the other: a call starts when none is in flight.
NextSeq ==
    \E c \in Callers :
        \/ AllIdle /\ CallCard(c)
        \/ \E content \in Contents, ctx \in ContextIds, tcid \in TestCases :
               AllIdle /\ CallSend(c, content, ctx, tcid)
        \/ CardFetched(c)
        \/ CardFetchFails(c)
        \/ \E p \in Payloads : SendResponds(c, p)
        \/ SendFails(c)

\* The text the LLM agent passes as test_case when it logs test case tcid.
TextOf(tcid) == IF tcid = "A" THEN Str(<<"q">>) ELSE Str(<<"\"", "q">>)

\* create_agent: the five tools are handed to the LLM agent, which calls them
\* one at a time, in the order and with the arguments it chooses.
NextAgent ==
    \/ AllIdle /\ GetScenarios
    \/ AllIdle /\ CallCard("c1")
    \/ \E tcid \in TestCases : AllIdle /\ CallSend("c1", "p", None, tcid)
    \/ \E tcid \in TestCases, e \in BOOLEAN :
           AllIdle /\ LogEvaluation(Str(<<"d">>), TextOf(tcid), Str(<<"n">>), e)
    \/ AllIdle /\ GenerateReport
    \/ CardFetched("c1")
    \/ CardFetchFails("c1")
    \/ \E p \in Payloads : SendResponds("c1", p)
    \/ SendFails("c1")

----------------------------------------------------------------------------
(* rogue UI: run_and_evaluate_scenarios, the consumer of the event stream *)

\* Python values held in state["results"] and final_results: None, a list,
\* or the Report object of a results event.
NoneResults == [kind |-> "none", items |-> <<>>]
EmptyList == [kind |-> "list", items |-> <<>>]
ReportObj(evals) == [kind |-> "report", items |-> evals]

\* not x, for the values above: None and the empty list are falsy.
FalsyNever(x) == FALSE

\* not x, for these values
Falsy(x) == x.kind = "none" \/ (x.kind = "list" /\ x.items = <<>>)

\* The items of the stream: the three event kinds, its end, and an exception.
NoEvent == [type |-> "nothing", role |-> None, content |-> None, data |-> NoneResults]
StatusEvent(text) == [type |-> "status", role |-> None, content |-> text, data |-> NoneResults]
ChatEvent(role, text) == [type |-> "chat", role |-> role, content |-> text, data |-> NoneResults]
ResultsEvent(r) == [type |-> "results", role |-> None, content |-> None, data |-> r]
StreamEnd == [type |-> "end", role |-> None, content |-> None, data |-> NoneResults]
StreamRaise(e) == [type |-> "raise", role |-> None, content |-> e, data |-> NoneResults]

StatusTexts == {"s1", "s2"}
ChatTexts == {"m1", "m2"}

Evaluator == "Evaluator Agent"
AgentUnderTest == "Agent Under Test"

\* What the previous run left in the state, if there was one.
OldReport == ReportObj(<<[scenario |-> 0, test_case |-> 0, evaluation |-> TRUE]>>)

StartText == <<"Starting execution...", "\n">>
MissingText == <<"Missing config or scenarios.">>
ErrorText == <<"Error evaluating scenarios.">>
MisconfiguredText ==
    <<"Scenarios are misconfigured. Please check the JSON format and regenerate them if needed.">>

Output(status, chat, tab) == [status |-> status, chat |-> chat, tab |-> tab]

\* What earlier runs left in the state: nothing; the results, summary and
\* output path of a completed run; the cleared results of a run that failed
\* before the output path was written (line 112), or after it; the cleared
\* results of a failed run next to the summary and the output path of a
\* completed one before it (nothing clears them).
Previous ==
    {[results |-> NoneResults, summary |-> "none", path |-> "none"],
     [results |-> OldReport, summary |-> "old", path |-> "old"],
     [results |-> EmptyList, summary |-> "none", path |-> "none"],
     [results |-> EmptyList, summary |-> "none", path |-> "old"],
     [results |-> EmptyList, summary |-> "old", path |-> "old"]}

\* The state dicts a click may come with: config and scenarios present or
\* not, the scenarios well-formed or not, the auth_type of the config a
\* value of AuthType or not, with or without previous runs.
States ==
    {[config |-> c, scenarios |-> sc, workdir |-> w, auth_type |-> a,
      results |-> p.results, summary |-> p.summary,
      evaluation_results_output_path |-> p.path] :
        c \in BOOLEAN, sc \in {"absent", "invalid", "valid"}, w \in BOOLEAN,
        a \in {"no_auth", "bogus"}, p \in Previous}

EmptyState ==
    [config |-> FALSE, scenarios |-> "absent", workdir |-> FALSE,
     auth_type |-> "no_auth",
     results |-> NoneResults, summary |-> "none",
     evaluation_results_output_path |-> "none"]

\* The texts the scenarios editor may hold when it loses focus: not JSON, or
\* JSON that is empty, that Scenarios rejects, or that Scenarios accepts.
ScenarioEdits == {"notjson", "absent", "invalid", "valid"}

InitUI ==
    /\ state = EmptyState
    /\ ui_pc = "idle"
    /\ status_updates = <<>>
    /\ chat_history = <<>>
    /\ final_results = NoneResults
    /\ shown = Output(<<>>, <<>>, None)
    /\ pending = NoEvent
    /\ events = <<>>
    /\ consumed = <<>>
    /\ caught = None
    /\ ui_scenarios = None

OnStatusReplace(su, data) == <<data, "\n">>

\* status_updates += f"{data}\n"
OnStatus(su, data) == su \o <<data, "\n">>

OnChatAlwaysAppend(ch, role, content) ==
    IF role = Evaluator
    THEN Append(ch, <<content, None>>)
    ELSE Append(ch, <<None, content>>)

\* The chat branch: a prompt opens a new exchange, a response fills the open
\* exchange or, with none open, is added with no prompt.
OnChat(ch, role, content) ==
    IF role = Evaluator
    THEN Append(ch, <<content, None>>)
    ELSE IF ch # <<>> /\ ch[Len(ch)][2] = None
         THEN [ch EXCEPT ![Len(ch)] = <<ch[Len(ch)][1], content>>]
         ELSE Append(ch, <<None, content>>)

CompleteStateNoResults(st, fr) == [st EXCEPT !.summary = "new"]

\* state["summary"] = summary;  state["results"] = final_results
CompleteState(st, fr) == [st EXCEPT !.summary = "new", !.results = fr]

\* The failures the evaluation can meet (section 7).
Failures == {"TransportError", "JudgmentFailed", "GenerationFailed"}

\* The except branch, having caught e: the exception is logged, then
\* yield state, "Error evaluating scenarios.", chat_history; return
UIError(e) ==
    /\ shown' = Output(ErrorText, chat_history, None)
    /\ ui_pc' = "errored"
    /\ caught' = e

\* The click, with state st: up to the first yield.
UIClick(st) ==
    /\ ui_pc = "idle"
    /\ state' = st
    /\ ui_scenarios' = st.scenarios
    /\ shown' = Output(<<"Starting...">>, <<>>, None)
    /\ ui_pc' = "started"
    /\ UNCHANGED <<status_updates, chat_history, final_results, pending,
                   events, consumed>>
    /\ UNCHANGED <<logVars, sessVars, orchVars, caught, sideVars>>

\* update_scenarios_in_state(scenarios_string, state), the blur handler of
\* the scenarios editor: text that parses is written to state["scenarios"],
\* text that does not leaves the state as it was.
UIBlur(text) ==
    /\ state' = IF text = "notjson" THEN state ELSE [state EXCEPT !.scenarios = text]
    /\ UNCHANGED <<ui_pc, status_updates, chat_history, final_results, shown,
                   pending, events, consumed>>
    /\ UNCHANGED <<logVars, sessVars, orchVars, restVars>>

UICheckClearsFirst ==
    /\ ui_pc = "started"
    /\ state' = [state EXCEPT !.results = EmptyList]
    /\ IF ~state.config \/ ui_scenarios = "absent"
       THEN /\ shown' = Output(MissingText, <<>>, None)
            /\ ui_pc' = "missing"
            /\ UNCHANGED <<status_updates, chat_history>>
       ELSE IF ui_scenarios = "invalid"
       THEN /\ shown' = Output(MisconfiguredText, <<>>, None)
            /\ ui_pc' = "misconfigured"
            /\ UNCHANGED <<status_updates, chat_history>>
       ELSE IF state.auth_type = "bogus"
       THEN /\ ui_pc' = "raised"
            /\ UNCHANGED <<shown, status_updates, chat_history>>
       ELSE /\ status_updates' = StartText
            /\ chat_history' = <<>>
            /\ shown' = Output(status_updates', chat_history', None)
            /\ ui_pc' = "running"
    /\ UNCHANGED <<final_results, pending, events, consumed>>
    /\ UNCHANGED <<logVars, sessVars, orchVars, restVars>>

\* From the first yield to the next: the two rejections, or AuthType(...)
\* raising outside any try (the generator ends with the exception and yields
\* nothing more), or the start of the run.
UICheck ==
    /\ ui_pc = "started"
    /\ IF ~state.config \/ ui_scenarios = "absent"
       THEN /\ shown' = Output(MissingText, <<>>, None)
            /\ ui_pc' = "missing"
            /\ UNCHANGED <<state, status_updates, chat_history>>
       ELSE IF ui_scenarios = "invalid"
       THEN /\ shown' = Output(MisconfiguredText, <<>>, None)
            /\ ui_pc' = "misconfigured"
            /\ UNCHANGED <<state, status_updates, chat_history>>
       ELSE IF state.auth_type = "bogus"
       THEN /\ ui_pc' = "raised"
            /\ UNCHANGED <<state, shown, status_updates, chat_history>>
       ELSE /\ status_updates' = StartText
            /\ state' = [state EXCEPT !.results = EmptyList]
            /\ chat_history' = <<>>
            /\ shown' = Output(status_updates', chat_history', None)
            /\ ui_pc' = "running"
    /\ UNCHANGED <<final_results, pending, events, consumed>>
    /\ UNCHANGED <<logVars, sessVars, orchVars, restVars>>

\* From the yield of "Starting execution..." to the first await of an event:
\* the output path, the evaluation service, final_results = None.
UIBegin ==
    /\ ui_pc = "running"
    /\ IF ~state.workdir
       THEN /\ UIError("TypeError")
            /\ UNCHANGED <<state, final_results, orchVars>>
       ELSE /\ state' = [state EXCEPT !.evaluation_results_output_path = "new"]
            /\ UNCHANGED caught
            /\ final_results' = NoneResults
            /\ ui_pc' = "loop"
            /\ orch' = "Idle"
            /\ log' = <<>>
            /\ UNCHANGED <<scen, ntc, tc, turn, half, transcript, verdict, shown>>
    /\ UNCHANGED <<status_updates, chat_history, pending, events, consumed>>
    /\ UNCHANGED <<logVars, sessVars, sideVars, ui_scenarios>>

\* The body of the async for, for one event.
UIOnEvent ==
    /\ ui_pc = "loop"
    /\ pending.type \in {"status", "chat", "results"}
    /\ consumed' = Append(consumed, pending)
    /\ pending' = NoEvent
    /\ CASE pending.type = "status" ->
              /\ status_updates' = OnStatus(status_updates, pending.content)
              /\ chat_history' = <<>>
              /\ shown' = Output(status_updates', chat_history', None)
              /\ UNCHANGED final_results
         [] pending.type = "chat" ->
              /\ chat_history' = OnChat(chat_history, pending.role, pending.content)
              /\ shown' = Output(status_updates, chat_history', None)
              /\ UNCHANGED <<status_updates, final_results>>
         [] pending.type = "results" ->
              /\ final_results' = pending.data
              /\ UNCHANGED <<status_updates, chat_history, shown>>
    /\ UNCHANGED <<state, ui_pc, events>>
    /\ UNCHANGED <<logVars, sessVars, orchVars, restVars>>

\* The stream raises inside the async for.
UIOnRaise ==
    /\ ui_pc = "loop"
    /\ pending.type = "raise"
    /\ pending' = NoEvent
    /\ UIError(pending.content)
    /\ UNCHANGED <<state, status_updates, chat_history, final_results, events, consumed>>
    /\ UNCHANGED <<logVars, sessVars, orchVars, sideVars, ui_scenarios>>

\* The stream ends: the check of final_results, the summary (which the LLM
\* service may fail to give), the state, and the last yield.
UIOnEnd(summary_ok) ==
    /\ ui_pc = "loop"
    /\ pending.type = "end"
    /\ pending' = NoEvent
    /\ IF Falsy(final_results) \/ ~summary_ok
       THEN /\ UIError(IF Falsy(final_results) THEN "ValueError" ELSE "SummaryError")
            /\ UNCHANGED <<state, status_updates>>
       ELSE /\ state' = CompleteState(state, final_results)
            /\ status_updates' = status_updates \o <<"\nEvaluation completed.">>
            /\ shown' = Output(status_updates', chat_history, "report")
            /\ ui_pc' = "completed"
            /\ UNCHANGED caught
    /\ UNCHANGED <<chat_history, final_results, events, consumed>>
    /\ UNCHANGED <<logVars, sessVars, orchVars, sideVars, ui_scenarios>>

\* The consumer awaits the next item of the stream.
Awaited == ui_pc = "loop" /\ pending = NoEvent

----------------------------------------------------------------------------
(* The agent_evaluator UI: run_and_evaluate_scenarios, a generator *)
(* (agent_evaluator/ui/components/scenario_runner.py)              *)

\* What run_evaluator_agent gives back, unless it raises.
AEResults ==
    {ReportObj(<<[scenario |-> 1, test_case |-> 1, evaluation |-> e]>>) : e \in BOOLEAN}
    \cup {EmptyList}

\* The state dicts a click may come with: the results are absent, those of
\* an earlier session, or what an earlier run of this function left (the
\* cleared list of a failed run, the results of a finished one).
AEStates ==
    [config : BOOLEAN,
     scenarios : {"absent", "invalid", "valid"},
     results : {NoneResults, OldReport, EmptyList} \cup AEResults]

AEEmptyState == [config |-> FALSE, scenarios |-> "absent", results |-> NoneResults]

\* The (state, status text, tabs update) triple of a yield or a return.
Triple(st, status, tab) == [state |-> st, status |-> status, tab |-> tab]

NoTriple == Triple(AEEmptyState, <<>>, None)

InitAE ==
    /\ ae_state = AEEmptyState
    /\ ae_pc = "idle"
    /\ ae_status_updates = <<>>
    /\ ae_shown = NoTriple
    /\ ae_ret = NoTriple
    /\ ae_clicks = 0

\* run_button.click(fn=run_and_evaluate_scenarios, outputs=[...]): the
\* function is a generator, so each yielded triple is written to the outputs,
OnYield(outputs, triple) == triple

\* and the value passed to return ends the iteration and is written nowhere.
OnReturn(outputs, triple) == outputs

\* The generator runs to its return.
AEReturn(triple) ==
    /\ ae_ret' = triple
    /\ ae_shown' = OnReturn(ae_shown, triple)
    /\ ae_pc' = "returned"

\* The click, with state st: up to the first yield, or to a return before it.
AEClick(st) ==
    /\ ae_pc \in {"idle", "returned"}
    /\ ae_clicks < MaxCalls
    /\ ae_clicks' = ae_clicks + 1
    /\ IF ~st.config \/ st.scenarios = "absent"
       THEN /\ AEReturn(Triple(st, MissingText, None))
            /\ ae_state' = st
            /\ UNCHANGED ae_status_updates
       ELSE IF st.scenarios = "invalid"
       THEN /\ AEReturn(Triple(st, MisconfiguredText, None))
            /\ ae_state' = st
            /\ UNCHANGED ae_status_updates
       ELSE /\ ae_status_updates' = StartText
            /\ ae_state' = [st EXCEPT !.results = EmptyList]
            /\ ae_shown' = OnYield(ae_shown, Triple(ae_state', ae_status_updates', None))
            /\ ae_pc' = "yielded"
            /\ UNCHANGED ae_ret
    /\ UNCHANGED <<logVars, sessVars, uiVars, orchVars, runVars, catVars, twoVars>>

\* update_scenarios_in_state(scenarios_string, state), the blur handler of
\* the scenarios editor, which may run while the generator is suspended: text
\* that parses is written to state["scenarios"] of the dict the run holds.
AEBlur(text) ==
    /\ ae_state' = IF text = "notjson" THEN ae_state
                   ELSE [ae_state EXCEPT !.scenarios = text]
    /\ UNCHANGED <<ae_pc, ae_status_updates, ae_shown, ae_ret, ae_clicks>>
    /\ UNCHANGED <<logVars, sessVars, uiVars, orchVars, runVars, catVars, twoVars>>

\* From the yield on: run_evaluator_agent raises,
AERunRaises ==
    /\ ae_pc = "yielded"
    /\ AEReturn(Triple(ae_state, ErrorText, None))
    /\ UNCHANGED <<ae_state, ae_status_updates, ae_clicks>>
    /\ UNCHANGED <<logVars, sessVars, uiVars, orchVars, runVars, catVars, twoVars>>

\* or gives the results.
AERunReturns(results) ==
    /\ ae_pc = "yielded"
    /\ ae_status_updates' = ae_status_updates \o <<"\nAll scenarios complete.">>
    /\ ae_state' = [ae_state EXCEPT !.results = results]
    /\ AEReturn(Triple(ae_state', ae_status_updates', "report"))
    /\ UNCHANGED ae_clicks
    /\ UNCHANGED <<logVars, sessVars, uiVars, orchVars, runVars, catVars, twoVars>>

NextAE ==
    \/ \E st \in AEStates : AEClick(st)
    \/ \E text \in ScenarioEdits : AEBlur(text)
    \/ AERunRaises
    \/ \E r \in AEResults : AERunReturns(r)

----------------------------------------------------------------------------
(* Two EvaluatorAgent instances and two UI runs side by side *)

Instances == {1, 2}
Runs == {1, 2}

\* EvaluatorAgent.__init__: an empty list and no client, of the instance's own.
\* waiting: the _get_evaluated_agent calls of the instance that are suspended
\* in await card_resolver.get_agent_card().
NewAgent == [evaluation_logs |-> <<>>, client |-> NoClient, waiting |-> 0]

\* The locals of one run_and_evaluate_scenarios invocation.
NewRun == [status_updates |-> StartText, chat_history |-> <<>>, pc |-> "streaming"]

InitTwo ==
    /\ agents = [i \in Instances |-> NewAgent]
    /\ runs = [r \in Runs |-> NewRun]

\* The operations the two agents and the two runs have carried out so far.
Work ==
    LET OfAgent(a) == Len(a.evaluation_logs) + a.waiting
                      + (IF a.client = NoClient THEN 0 ELSE 1)
        OfRun(r) == (Len(r.status_updates) - Len(StartText)) \div 2 + Len(r.chat_history)
    IN OfAgent(agents[1]) + OfAgent(agents[2]) + OfRun(runs[1]) + OfRun(runs[2])

LogIntoShared(ags, i, rec) ==
    [j \in DOMAIN ags |->
        [ags[j] EXCEPT !.evaluation_logs = LogAppend(ags[j].evaluation_logs, rec)]]

\* self._evaluation_logs.append({...}), self being instance i
LogInto(ags, i, rec) ==
    [ags EXCEPT ![i].evaluation_logs = LogAppend(ags[i].evaluation_logs, rec)]

\* A connection object no instance holds.
NewConnection(ags) ==
    LET held == {ags[j].client : j \in DOMAIN ags}
    IN 1 + (CHOOSE m \in held : \A x \in held : x <= m)

\* self.__evaluated_agent_client = RemoteAgentConnections(...), self being
\* instance i: a new connection object, which replaces the one an
\* overlapping call may have stored meanwhile.
ResolveIn(ags, i) ==
    [ags EXCEPT ![i].client = NewConnection(ags), ![i].waiting = ags[i].waiting - 1]

\* Instance i logs an evaluation.
TwoLog(i, t, e) ==
    /\ Work < MaxCalls + 1
    /\ agents' = LogInto(agents, i, EvaluationRecord(Str(<<"d">>), t, <<>>, e))
    /\ UNCHANGED runs
    /\ UNCHANGED <<logVars, sessVars, uiVars, orchVars, runVars, catVars, aeVars>>

\* _get_evaluated_agent is called on instance i: with a client cached it
\* returns it, with none it suspends in the await of the card.
TwoResolveCall(i) ==
    /\ Work < MaxCalls + 1
    /\ agents' = IF CacheMiss(agents[i].client)
                 THEN [agents EXCEPT ![i].waiting = agents[i].waiting + 1]
                 ELSE agents
    /\ UNCHANGED runs
    /\ UNCHANGED <<logVars, sessVars, uiVars, orchVars, runVars, catVars, aeVars>>

\* The card arrives for a suspended call of instance i: the client is stored.
TwoCardFetched(i) ==
    /\ agents[i].waiting > 0
    /\ agents' = ResolveIn(agents, i)
    /\ UNCHANGED runs
    /\ UNCHANGED <<logVars, sessVars, uiVars, orchVars, runVars, catVars, aeVars>>

\* get_agent_card raises in a suspended call of instance i: nothing is stored.
TwoCardFetchFails(i) ==
    /\ agents[i].waiting > 0
    /\ agents' = [agents EXCEPT ![i].waiting = agents[i].waiting - 1]
    /\ UNCHANGED runs
    /\ UNCHANGED <<logVars, sessVars, uiVars, orchVars, runVars, catVars, aeVars>>

\* Run r consumes a status event,
TwoStatus(r, text) ==
    /\ Work < MaxCalls + 1
    /\ runs[r].pc = "streaming"
    /\ runs' = [runs EXCEPT ![r].status_updates = OnStatus(runs[r].status_updates, text),
                            ![r].chat_history = <<>>]
    /\ UNCHANGED agents
    /\ UNCHANGED <<logVars, sessVars, uiVars, orchVars, runVars, catVars, aeVars>>

\* or a chat event.
TwoChat(r, role, text) ==
    /\ Work < MaxCalls + 1
    /\ runs[r].pc = "streaming"
    /\ runs' = [runs EXCEPT ![r].chat_history = OnChat(runs[r].chat_history, role, text)]
    /\ UNCHANGED agents
    /\ UNCHANGED <<logVars, sessVars, uiVars, orchVars, runVars, catVars, aeVars>>

\* The stream of run r ends and the run completes (lines 143-174): the last
\* status line is added to its status text.
TwoEnd(r) ==
    /\ runs[r].pc = "streaming"
    /\ runs' = [runs EXCEPT ![r].status_updates = @ \o <<"\nEvaluation completed.">>,
                            ![r].pc = "completed"]
    /\ UNCHANGED agents
    /\ UNCHANGED <<logVars, sessVars, uiVars, orchVars, runVars, catVars, aeVars>>

\* The stream of run r raises, or ends with no results, or the summary
\* fails (lines 162-170): the run ends with its locals as they are.
TwoError(r) ==
    /\ runs[r].pc = "streaming"
    /\ runs' = [runs EXCEPT ![r].pc = "errored"]
    /\ UNCHANGED agents
    /\ UNCHANGED <<logVars, sessVars, uiVars, orchVars, runVars, catVars, aeVars>>

\* One status text, one chat text and one verdict are enough here: the steps
\* differ in whose state they touch.
NextTwo ==
    \/ \E i \in Instances, t \in TestCaseTexts : TwoLog(i, t, TRUE)
    \/ \E i \in Instances : TwoResolveCall(i)
    \/ \E i \in Instances : TwoCardFetched(i)
    \/ \E i \in Instances : TwoCardFetchFails(i)
    \/ \E r \in Runs : TwoStatus(r, "s1")
    \/ \E r \in Runs, role \in {Evaluator, AgentUnderTest} : TwoChat(r, role, "m1")
    \/ \E r \in Runs : TwoEnd(r)
    \/ \E r \in Runs : TwoError(r)

----------------------------------------------------------------------------
(* An arbitrary event stream: any events in any order, an end or an exception *)

StreamReports ==
    {ReportObj(<<[scenario |-> 1, test_case |-> 1, evaluation |-> FALSE]>>), EmptyList}

StreamEvents ==
    {StatusEvent(t) : t \in StatusTexts}
    \cup {ChatEvent(r, t) : r \in {Evaluator, AgentUnderTest}, t \in ChatTexts}
    \cup {ResultsEvent(r) : r \in StreamReports}

StreamEmit(ev) ==
    /\ Awaited
    /\ Len(events) < MaxEvents
    /\ pending' = ev
    /\ events' = Append(events, ev)
    /\ UNCHANGED <<state, ui_pc, status_updates, chat_history, final_results, shown,
                   consumed>>
    /\ UNCHANGED <<logVars, sessVars, orchVars, restVars>>

StreamStops(item) ==
    /\ Awaited
    /\ pending' = item
    /\ UNCHANGED <<state, ui_pc, status_updates, chat_history, final_results, shown,
                   events, consumed>>
    /\ UNCHANGED <<logVars, sessVars, orchVars, restVars>>

\* A step of the invocation or of its stream.
StreamStep ==
    \/ \E st \in States : UIClick(st)
    \/ UICheck
    \/ UIBegin
    \/ UIOnEvent
    \/ UIOnRaise
    \/ \E ok \in BOOLEAN : UIOnEnd(ok)
    \/ \E ev \in StreamEvents : StreamEmit(ev)
    \/ StreamStops(StreamEnd)
    \/ \E e \in Failures : StreamStops(StreamRaise(e))

NextStream ==
    \/ StreamStep
    \/ \E text \in ScenarioEdits : UIBlur(text)

----------------------------------------------------------------------------
(* The evaluation service behind the stream: the orchestrator of section 4.5 *)

TestCaseCounts == {1, 2}
TurnCounts == {1, 2}
Replies == {"refusal", "offer"}

InitOrch ==
    /\ orch = "NotStarted"
    /\ scen = 0
    /\ ntc = 0
    /\ tc = 0
    /\ turn = 0
    /\ half = FALSE
    /\ transcript = <<>>
    /\ verdict = TRUE
    /\ log = <<>>

\* Judge.evaluate: the whole transcript passes only if no turn violates.
Judge(ts) == \A i \in 1..Len(ts) : ts[i] # "offer"

\* Report: the ordered Evaluations of the log.
Report(l) == ReportObj(l)

Emit(ev) ==
    /\ pending' = ev
    /\ events' = Append(events, ev)
    /\ UNCHANGED <<state, ui_pc, status_updates, chat_history, final_results, shown,
                   consumed>>

Silent == UNCHANGED uiVars

\* Idle -> RunningScenario: pop the next scenario, emit a status event.
OrchPop ==
    /\ Awaited
    /\ orch = "Idle"
    /\ IF scen < NumScenarios
       THEN /\ scen' = scen + 1
            /\ orch' = "RunningScenario"
            /\ Emit(StatusEvent(<<"starting scenario", scen'>>))
       ELSE /\ orch' = "Summarizing"
            /\ Silent
            /\ UNCHANGED scen
    /\ UNCHANGED <<ntc, tc, turn, half, transcript, verdict, log>>
    /\ UNCHANGED <<logVars, sessVars, restVars>>

\* RunningScenario -> RunningTestCase: n test cases are generated.
OrchGenerate(n) ==
    /\ Awaited
    /\ orch = "RunningScenario"
    /\ orch' = "RunningTestCase"
    /\ ntc' = n
    /\ tc' = 1
    /\ turn' = 0
    /\ half' = FALSE
    /\ transcript' = <<>>
    /\ Silent
    /\ UNCHANGED <<scen, verdict, log>>
    /\ UNCHANGED <<logVars, sessVars, restVars>>

\* A turn: the prompt is emitted as a chat event at once ...
OrchPrompt ==
    /\ Awaited
    /\ orch = "RunningTestCase"
    /\ ~half
    /\ turn + 1 \in TurnCounts
    /\ turn' = turn + 1
    /\ half' = TRUE
    /\ Emit(ChatEvent(Evaluator, <<"prompt", scen, tc, turn'>>))
    /\ UNCHANGED <<orch, scen, ntc, tc, transcript, verdict, log>>
    /\ UNCHANGED <<logVars, sessVars, restVars>>

\* ... and the response when it is received.
OrchResponse(r) ==
    /\ Awaited
    /\ orch = "RunningTestCase"
    /\ half
    /\ half' = FALSE
    /\ transcript' = Append(transcript, r)
    /\ Emit(ChatEvent(AgentUnderTest, <<r, scen, tc, turn>>))
    /\ UNCHANGED <<orch, scen, ntc, tc, turn, verdict, log>>
    /\ UNCHANGED <<logVars, sessVars, restVars>>

\* RunningTestCase -> Judging: all turns of the test case are exchanged.
OrchJudge ==
    /\ Awaited
    /\ orch = "RunningTestCase"
    /\ ~half
    /\ turn >= 1
    /\ orch' = "Judging"
    /\ Silent
    /\ UNCHANGED <<scen, ntc, tc, turn, half, transcript, verdict, log>>
    /\ UNCHANGED <<logVars, sessVars, restVars>>

\* Judging -> Logging: the Judge's verdict on the transcript.
OrchVerdict ==
    /\ Awaited
    /\ orch = "Judging"
    /\ verdict' = Judge(transcript)
    /\ orch' = "Logging"
    /\ Silent
    /\ UNCHANGED <<scen, ntc, tc, turn, half, transcript, log>>
    /\ UNCHANGED <<logVars, sessVars, restVars>>

\* Logging: the Evaluation is appended; then the next test case, or the next
\* scenario, or Summarizing when the catalog is exhausted.
OrchLog ==
    /\ Awaited
    /\ orch = "Logging"
    /\ log' = Append(log, [scenario |-> scen, test_case |-> tc, evaluation |-> verdict])
    /\ IF tc < ntc
       THEN /\ orch' = "RunningTestCase"
            /\ tc' = tc + 1
            /\ turn' = 0
            /\ transcript' = <<>>
       ELSE /\ orch' = "Idle"
            /\ UNCHANGED <<tc, turn, transcript>>
    /\ Silent
    /\ UNCHANGED <<scen, ntc, half, verdict>>
    /\ UNCHANGED <<logVars, sessVars, restVars>>

\* Summarizing -> Done: the Report is built from the log and emitted.
OrchSummarize ==
    /\ Awaited
    /\ orch = "Summarizing"
    /\ orch' = "Done"
    /\ Emit(ResultsEvent(Report(log)))
    /\ UNCHANGED <<scen, ntc, tc, turn, half, transcript, verdict, log>>
    /\ UNCHANGED <<logVars, sessVars, restVars>>

\* Done: the stream ends.
OrchEnd ==
    /\ Awaited
    /\ orch = "Done"
    /\ orch' = "Closed"
    /\ pending' = StreamEnd
    /\ UNCHANGED <<state, ui_pc, status_updates, chat_history, final_results, shown,
                   events, consumed>>
    /\ UNCHANGED <<scen, ntc, tc, turn, half, transcript, verdict, log>>
    /\ UNCHANGED <<logVars, sessVars, restVars>>

\* The failure a running state can meet.
FailureOf(st, waiting) ==
    CASE st = "RunningScenario" -> "GenerationFailed"
      [] st = "RunningTestCase" /\ waiting -> "TransportError"
      [] st = "Judging" -> "JudgmentFailed"
      [] OTHER -> None

\* An unrecoverable failure: Errored, and an error status event with the cause.
OrchFail ==
    /\ Awaited
    /\ FailureOf(orch, half) # None
    /\ orch' = "Errored"
    /\ Emit(StatusEvent(<<"error", FailureOf(orch, half)>>))
    /\ UNCHANGED <<scen, ntc, tc, turn, half, transcript, verdict, log>>
    /\ UNCHANGED <<logVars, sessVars, restVars>>

\* Errored: the failure surfaces in the consumer as an exception.
OrchRaise ==
    /\ Awaited
    /\ orch = "Errored"
    /\ orch' = "Raised"
    /\ pending' = StreamRaise("Exception")
    /\ UNCHANGED <<state, ui_pc, status_updates, chat_history, final_results, shown,
                   events, consumed>>
    /\ UNCHANGED <<scen, ntc, tc, turn, half, transcript, verdict, log>>
    /\ UNCHANGED <<logVars, sessVars, restVars>>

NextRun ==
    \/ \E st \in States : UIClick(st)
    \/ \E text \in ScenarioEdits : UIBlur(text)
    \/ UICheck
    \/ UIBegin
    \/ UIOnEvent
    \/ UIOnRaise
    \/ \E ok \in BOOLEAN : UIOnEnd(ok)
    \/ OrchPop
    \/ \E n \in TestCaseCounts : OrchGenerate(n)
    \/ OrchPrompt
    \/ \E r \in Replies : OrchResponse(r)
    \/ OrchJudge
    \/ OrchVerdict
    \/ OrchLog
    \/ OrchSummarize
    \/ OrchEnd
    \/ OrchFail
    \/ OrchRaise

----------------------------------------------------------------------------
(* Specifications *)

vars == <<logVars, sessVars, uiVars, orchVars, restVars>>

Init == InitLog /\ InitSession /\ InitUI /\ InitOrch /\ InitAE /\ InitTwo

\* The evaluation log and the report.
SpecLog == Init /\ [][NextLog]_vars

\* The session tools under concurrent callers.
Spec == Init /\ [][NextSession]_vars

\* The session tools called sequentially.
SpecSeq == Init /\ [][NextSeq]_vars

\* The rogue UI run driven by the evaluation service.
SpecRun == Init /\ [][NextRun]_vars

\* The rogue UI run over an arbitrary event stream.
SpecStream == Init /\ [][NextStream]_vars

\* The rogue UI run over an arbitrary event stream that keeps going: the
\* click is handled, the stream emits or stops, the consumer resumes.
SpecStreamFair == SpecStream /\ WF_vars(StreamStep)

\* The scenario catalog polled again and again.
SpecPoll == SpecLog /\ WF_vars(GetScenarios)

\* The LLM agent calling its tools.
SpecAgent == Init /\ [][NextAgent]_vars

\* The agent_evaluator UI run.
SpecAE == Init /\ [][NextAE]_vars

\* Two evaluator agents and two UI runs, interleaved.
SpecTwo == Init /\ [][NextTwo]_vars

----------------------------------------------------------------------------
(* The evaluation log and the report (SpecLog) *)

RecordsOf(cs) ==
    [i \in 1..Len(cs) |-> EvaluationRecord(cs[i][1], cs[i][2], cs[i][3], cs[i][4])]

PassCount(evals) == Cardinality({i \in 1..Len(evals) : evals[i].evaluation})
FailCount(evals) == Cardinality({i \in 1..Len(evals) : ~evals[i].evaluation})

\* C2: the evaluation log is append-only and order-preserving: it always equals
\* the records logged so far in call order, and every step either leaves it as
\* it is or adds exactly one record at its end (_generate_report included).
C2_LogAppendOnly ==
    /\ [](evaluation_logs = RecordsOf(calls))
    /\ [][ /\ Len(evaluation_logs') \in {Len(evaluation_logs), Len(evaluation_logs) + 1}
           /\ SubSeq(evaluation_logs', 1, Len(evaluation_logs)) = evaluation_logs ]_vars

C2_Witness ==
    /\ Len(evaluation_logs) = 2
    /\ evaluation_logs[1] # evaluation_logs[2]
    /\ report # NoReport
    /\ Len(reported) = 1

\* C7: json.loads of the text _generate_report returned gives back the log the
\* report was built from: the same records in the same order with the same
\* field values, hence the same pass and fail totals.
C7_ReportRoundTrip ==
    report # NoReport =>
        LET r == JsonLoads(report) IN
        /\ r.ok
        /\ r.val = reported
        /\ PassCount(r.val) = PassCount(reported)
        /\ FailCount(r.val) = FailCount(reported)

\* C8: every record of the report carries the fields scenario, test_case,
\* response, evaluation and reason.
C8_RecordsCarryReason ==
    report # NoReport =>
        LET r == JsonLoads(report) IN
        /\ r.ok
        /\ \A i \in 1..Len(r.val) :
               {"scenario", "test_case", "response", "evaluation", "reason"}
                   \subseteq DOMAIN r.val[i]

----------------------------------------------------------------------------
(* The cached client and sending (Spec, SpecSeq) *)

\* C3: called one after the other, once _get_evaluated_agent has stored a
\* client no later step issues a discovery call or replaces the client, and
\* every client handed to a caller is the cached one.
C3_ResolveIdempotent ==
    /\ [](used \subseteq {client})
    /\ [][client # NoClient =>
              /\ discoveries' = discoveries
              /\ client' = client]_vars

C3_Witness ==
    /\ ncalls = 3
    /\ AllIdle
    /\ discoveries = 1
    /\ used = {client}
    /\ \E c \in Callers : op[c] = "send" /\ payload[c] = "resp" /\ ret[c].kind = "return"
    /\ \E c \in Callers : op[c] = "card" /\ ret[c].kind = "return"

\* C4: under any interleaving of concurrent callers the card is fetched once
\* per session and all callers are handed the same client.
C4_FetchedOnce == conns <= 1 /\ Cardinality(used) <= 1

\* C5: two distinct test cases never send turns under the same context id.
C5_ContextIsolation ==
    \A m1, m2 \in sent :
        (m1.context_id # None /\ m1.context_id = m2.context_id)
            => m1.test_case = m2.test_case

SendDone(c) == op[c] = "send" /\ pc[c] = "idle" /\ payload[c] = NoResponse

\* C6: a send answered with no response (an empty or null payload) ends in a
\* NoResponse error reported to the caller, not in a normal return value.
C6_NoResponseIsError ==
    \A c \in Callers : SendDone(c) => ret[c] = Raise("NoResponse")

----------------------------------------------------------------------------
(* The rogue UI run (SpecRun, SpecStream) *)

\* C1: a run that fails after Evaluations were logged ends in Errored and
\* still yields in state["results"] a Report holding those Evaluations.
C1_FailedRunYieldsReport ==
    (ui_pc = "errored" /\ orch = "Raised" /\ log # <<>>)
        => state.results.kind = "report" /\ state.results.items = log

ResultsAt == {i \in 1..Len(events) : events[i].type = "results"}

\* C9: in a run that reaches Done exactly one results event was emitted, it is
\* the last event of the stream and carries the Report built from the log;
\* once the consumer has handled it final_results is that Report, and a
\* completed run has stored it in state["results"].
C9_ResultsLast ==
    /\ orch \in {"Done", "Closed"} =>
           /\ ResultsAt = {Len(events)}
           /\ events[Len(events)].data = Report(log)
           /\ consumed = events => final_results = Report(log)
    /\ ui_pc = "completed" =>
           /\ orch = "Closed"
           /\ final_results = Report(log)
           /\ state.results = Report(log)

C9_Witness ==
    /\ ui_pc = "completed"
    /\ Len(log) = 3
    /\ \E i \in 1..Len(events) : events[i].type = "chat"
    /\ state.results.items = log

RECURSIVE StatusText(_)
StatusText(evs) ==
    IF evs = <<>> THEN <<>>
    ELSE IF Head(evs).type = "status"
         THEN <<Head(evs).content, "\n">> \o StatusText(Tail(evs))
         ELSE StatusText(Tail(evs))

\* The contents of the chat events that follow the last status event.
RECURSIVE ChatsShown(_, _)
ChatsShown(evs, acc) ==
    IF evs = <<>> THEN acc
    ELSE IF Head(evs).type = "status" THEN ChatsShown(Tail(evs), <<>>)
    ELSE IF Head(evs).type = "chat" THEN ChatsShown(Tail(evs), Append(acc, Head(evs).content))
    ELSE ChatsShown(Tail(evs), acc)

\* The texts of a chat history, exchange by exchange, prompt before response.
RECURSIVE ChatContents(_)
ChatContents(ch) ==
    IF ch = <<>> THEN <<>>
    ELSE (IF Head(ch)[1] = None THEN <<>> ELSE <<Head(ch)[1]>>)
         \o (IF Head(ch)[2] = None THEN <<>> ELSE <<Head(ch)[2]>>)
         \o ChatContents(Tail(ch))

\* C10: events are handled one by one in emission order and none is dropped:
\* while the stream is consumed the status shown is the start line followed by
\* the text of every status event handled, in order, and the chat shown holds
\* the contents of the chat events handled since the last status event, in
\* the order of their emission; an event emitted and not yet handled waits.
C10_ObserverInOrder ==
    ui_pc = "loop" =>
        /\ consumed \o (IF pending.type \in {"status", "chat", "results"}
                        THEN <<pending>> ELSE <<>>) = events
        /\ status_updates = StartText \o StatusText(consumed)
        /\ ChatContents(chat_history) = ChatsShown(consumed, <<>>)
        /\ shown.status = status_updates
        /\ shown.chat = chat_history

C10_Witness ==
    /\ ui_pc = "loop"
    /\ Len(consumed) = 4
    /\ consumed[1].type = "status" /\ consumed[2].type = "status"
    /\ consumed[1].content # consumed[2].content
    /\ consumed[3].type = "chat" /\ consumed[4].type = "chat"
    /\ Len(shown.chat) = 2

----------------------------------------------------------------------------
(* Failure of a run (SpecStream) *)

\* C11: when a run fails with an unrecoverable failure (a transport, Judge or
\* generation failure), the error status the observer is given carries the
\* cause of the failure.
C11_ErrorCarriesCause ==
    (ui_pc = "errored" /\ caught \in Failures) =>
        \E i \in 1..Len(shown.status) : shown.status[i] = caught

----------------------------------------------------------------------------
(* The agent_evaluator UI (SpecAE) *)

\* C12: malformed scenario input is rejected before any run starts and the
\* rejection is reported to the user: a click on a state whose scenarios fail
\* the validation ends the function at once, with no run started (nothing
\* yielded, no status text begun), and the status box shows the
\* misconfiguration message.
C12_RejectionReported ==
    [][(ae_clicks' # ae_clicks /\ ae_state'.config /\ ae_state'.scenarios = "invalid") =>
          /\ ae_pc' = "returned"
          /\ ae_ret'.status = MisconfiguredText
          /\ ae_status_updates' = ae_status_updates
          /\ ae_shown'.status = MisconfiguredText]_vars

\* C17: every exit path delivers its final (state, status text, tabs update)
\* triple to the click outputs: once the function has returned, the outputs
\* hold the triple it returned.
C17_FinalTripleDelivered == ae_pc = "returned" => ae_shown = ae_ret

----------------------------------------------------------------------------
(* The scenario catalog (SpecPoll) *)

\* C13: _get_scenarios returns an empty list once no more scenarios are
\* available, so a caller that calls it until it is empty eventually sees
\* the empty list.
C13_EventuallyExhausted == <>(got = <<>>)

----------------------------------------------------------------------------
(* The tools in the hands of the LLM agent (SpecAgent) *)

\* C14: an evaluation is logged only after the turns of its test case were
\* exchanged, and each test case has exactly one log entry: every entry of
\* the log is for a test case a prompt was sent for, and no two entries are
\* for the same test case.
C14_LoggedAfterExchange ==
    /\ \A i \in 1..Len(evaluation_logs) :
          \E m \in sent : TextOf(m.test_case) = evaluation_logs[i].test_case
    /\ \A i, j \in 1..Len(evaluation_logs) :
          i # j => evaluation_logs[i].test_case # evaluation_logs[j].test_case

----------------------------------------------------------------------------
(* Two agents and two runs (SpecTwo) *)

\* C15: independent runs share no mutable state: a step that changes the log
\* or the cached client of one EvaluatorAgent instance leaves the other
\* instance and both UI runs as they were, and a step that changes the status
\* text or the chat history of one UI run leaves the other run and both
\* instances as they were.
C15_RunsIndependent ==
    [][/\ \A i \in Instances :
            agents'[i] # agents[i] =>
                /\ \A j \in Instances \ {i} : agents'[j] = agents[j]
                /\ runs' = runs
       /\ \A r \in Runs :
            runs'[r] # runs[r] =>
                /\ \A q \in Runs \ {r} : runs'[q] = runs[q]
                /\ agents' = agents]_vars

C15_Witness ==
    /\ agents[1].evaluation_logs # <<>>
    /\ agents[2].evaluation_logs # <<>>
    /\ agents[1].evaluation_logs # agents[2].evaluation_logs
    /\ runs[1].chat_history # <<>>
    /\ runs[2].status_updates # StartText
    /\ runs[1].status_updates = StartText

----------------------------------------------------------------------------
(* The chat pairs, the results and the last output (SpecStream) *)

\* The chat events of evs alternate, prompt then response, between status
\* events; open tells whether a prompt awaits its response.
RECURSIVE Alternates(_, _)
Alternates(evs, open) ==
    IF evs = <<>> THEN TRUE
    ELSE IF Head(evs).type = "status" THEN Alternates(Tail(evs), FALSE)
    ELSE IF Head(evs).type = "chat" /\ Head(evs).role = Evaluator
         THEN ~open /\ Alternates(Tail(evs), TRUE)
    ELSE IF Head(evs).type = "chat"
         THEN open /\ Alternates(Tail(evs), FALSE)
    ELSE Alternates(Tail(evs), open)

\* C18: when the chat events handled so far alternate prompt then response
\* between status events, the chat history is a list of [prompt, response]
\* pairs in emission order: no entry lacks its prompt (the fallback branch
\* was not taken) and only the last entry may lack its response.
C18_ChatPairs ==
    (ui_pc \in {"loop", "errored", "completed"} /\ Alternates(consumed, FALSE)) =>
        /\ \A i \in 1..Len(chat_history) :
              /\ chat_history[i][1] # None
              /\ i < Len(chat_history) => chat_history[i][2] # None
        /\ ChatContents(chat_history) = ChatsShown(consumed, <<>>)

C18_Witness ==
    /\ ui_pc = "loop"
    /\ Alternates(consumed, FALSE)
    /\ Len(consumed) = 4
    /\ consumed[1].type = "status"
    /\ Len(chat_history) = 2
    /\ chat_history[1][2] # None
    /\ chat_history[2][2] = None

Terminal == {"missing", "misconfigured", "errored", "completed"}

\* The generator has finished: after a terminal output, or with an exception.
Ended == Terminal \cup {"raised"}

\* C19: a run counts as successful only if a results event was received:
\* the report tab is selected exactly when the run completed; a completed run
\* caught no exception, handled a results event with a non-empty value, and
\* wrote that value and the summary to the state; until then the state holds
\* no summary and, once the run has started, only the cleared results; a run
\* that ended with no results event handled took the error path.
C19_SuccessNeedsResults ==
    /\ shown.tab = "report" <=> ui_pc = "completed"
    /\ ui_pc = "completed" =>
          /\ caught = None
          /\ \E i \in 1..Len(consumed) :
                consumed[i].type = "results" /\ consumed[i].data.kind = "report"
          /\ state.results = final_results
          /\ state.results.kind = "report"
          /\ state.summary = "new"
    /\ ui_pc # "completed" => state.summary # "new"
    /\ ui_pc \in {"running", "loop", "errored"} => state.results = EmptyList
    /\ (ui_pc \in Terminal /\ state.evaluation_results_output_path = "new"
          /\ \A i \in 1..Len(consumed) : consumed[i].type # "results") =>
          ui_pc = "errored"

C19_Witness ==
    /\ ui_pc = "completed"
    /\ state.results.kind = "report"
    /\ consumed[Len(consumed)].type = "results"

\* An output that ends an invocation.
TerminalOutput(o) ==
    \/ o.status \in {MissingText, MisconfiguredText, ErrorText}
    \/ /\ o.status # <<>>
       /\ o.status[Len(o.status)] = "\nEvaluation completed."
       /\ o.tab = "report"

\* C20: every invocation ends with exactly one terminal output: the output
\* shown is terminal exactly when the invocation has ended, it is the one of
\* the path taken (missing, misconfigured, error, or completed with the
\* report tab selected), no output follows it, and every invocation whose
\* stream ends reaches it.
C20_OneTerminalOutput ==
    /\ [](/\ TerminalOutput(shown) <=> ui_pc \in Ended
          /\ ui_pc = "missing" => shown.status = MissingText
          /\ ui_pc = "misconfigured" => shown.status = MisconfiguredText
          /\ ui_pc = "errored" => shown.status = ErrorText /\ shown.tab = None
          /\ ui_pc = "completed" => shown.status # ErrorText /\ shown.tab = "report")
    /\ [][(ui_pc \in Ended) => (shown' = shown /\ ui_pc' = ui_pc)]_vars
    /\ <>(ui_pc \in Ended)

\* C21: a rejected start leaves the shared state unchanged: the step from the
\* first yield to a rejection (config or scenarios missing, or the scenarios
\* failing validation) leaves state["results"], state["summary"] and
\* state["evaluation_results_output_path"] as the call received them, and
\* nothing changes them afterwards.
C21_RejectionKeepsState ==
    [][(ui_pc' \in {"missing", "misconfigured"}) =>
           /\ state'.results = state.results
           /\ state'.summary = state.summary
           /\ state'.evaluation_results_output_path =
                  state.evaluation_results_output_path]_vars

C21_Witness ==
    /\ ui_pc = "misconfigured"
    /\ state.config
    /\ state.results = OldReport

----------------------------------------------------------------------------
(* A failed card fetch (SpecSeq) *)

\* C22: a failed resolution is not cached: when the card fetch of a call
\* raises, the call ends with that error, and the cached client, the
\* connections created and the discoveries issued stay as they were (no
\* retry within the call); a call that starts with no client cached issues
\* a discovery of its own.
C22_FailureNotCached ==
    [][\A c \in Callers :
          /\ (pc[c] = "await_card" /\ pc'[c] = "idle" /\ ret'[c].kind = "raise") =>
                /\ ret'[c] = Raise("CardError")
                /\ client' = client
                /\ conns' = conns
                /\ discoveries' = discoveries
          /\ (pc[c] = "idle" /\ pc'[c] # "idle" /\ client = NoClient) =>
                /\ pc'[c] = "await_card"
                /\ discoveries' = discoveries + 1
          /\ (pc[c] = "idle" /\ ncalls' = ncalls + 1 /\ client # NoClient) =>
                discoveries' = discoveries]_vars

\* One call failed at the card fetch, and the next call is at its own fetch.
C22_Witness ==
    /\ ret["c1"].kind = "raise"
    /\ ret["c1"] = Raise("CardError")
    /\ pc["c2"] = "await_card"
    /\ op["c2"] = "send"
    /\ client = NoClient
    /\ discoveries = 2

=============================================================================
